---- MODULE Spec2Model ----
(***************************************************************************)
(* Model of the recommendation reconciliation performed by                 *)
(* analyze_optimal_claim_path (src/app/services/claim_service.py).         *)
(*                                                                         *)
(* Python values are modelled as follows.                                  *)
(*   - str values are TLA+ strings, handled character by character         *)
(*     (Len, SubSeq and \o work on strings in TLC).                        *)
(*   - None and a non-string token (the integer 42) are the distinguished  *)
(*     strings NoneVal and IntTok; IsStr tells them from real strings.     *)
(*   - a dict with optional keys is a record with a field "has" holding    *)
(*     the set of keys that are present; an absent key's field holds the   *)
(*     empty value and is never read without consulting "has".             *)
(*   - a policy document field that is absent, None or "" is modelled as   *)
(*     "" (the code reads all of them through .get(key, "") and tests      *)
(*     truthiness only).                                                   *)
(***************************************************************************)
EXTENDS Integers, Sequences, FiniteSets, TLC

VARIABLES store, pc, policies, raw, mapped, result

\* Several calls in one process: the position, oracle answer and returned
\* value of each call, the locals of each coroutine frame, and the iteration
\* order the process's hash seed gives to a set of policy ids.
VARIABLES calls, frames, hash_order

concurrent_vars == <<calls, frames, hash_order>>

\* The message handler that calls the function: its position, the state of
\* the conversation, the "Analyzing your situation..." message, the number of
\* delete_message requests made for it, and the callback data of the buttons
\* under the last message sent.
VARIABLES hpc, fsm_state, processing, delete_requests, keyboard

handler_vars == <<hpc, fsm_state, processing, delete_requests, keyboard>>

vars == <<store, pc, policies, raw, mapped, result, calls, frames, hash_order,
          hpc, fsm_state, processing, delete_requests, keyboard>>

\* No message is being handled.
HandlerIdle ==
    /\ hpc = "idle"
    /\ fsm_state = "entering_situation"
    /\ processing = "none"
    /\ delete_requests = 0
    /\ keyboard = <<>>

(***************************************************************************)
(* Bounds of the model.                                                    *)
(***************************************************************************)
MaxPolicies == 2
MaxTokens == 2
MaxDetails == 1

(***************************************************************************)
(* Python string primitives.                                               *)
(***************************************************************************)
NoneVal == "<None>"
IntTok == "<int 42>"

IsStr(v) == v \notin {NoneVal, IntTok}

UpperAlphabet == "ABCDEFGHIJKLMNOPQRSTUVWXYZ"
LowerAlphabet == "abcdefghijklmnopqrstuvwxyz"

LowerChar(c) ==
    IF \E i \in 1..26 : SubSeq(UpperAlphabet, i, i) = c
    THEN LET i == CHOOSE j \in 1..26 : SubSeq(UpperAlphabet, j, j) = c
         IN  SubSeq(LowerAlphabet, i, i)
    ELSE c

RECURSIVE Lower(_)
Lower(s) == IF s = "" THEN "" ELSE LowerChar(Head(s)) \o Lower(Tail(s))

\* Python's  sub in s  for strings.
Contains(s, sub) ==
    \E i \in 0..(Len(s) - Len(sub)) : SubSeq(s, i + 1, i + Len(sub)) = sub

\* Python's  s.replace(old, new)  for a non-empty old: non-overlapping
\* occurrences, scanned from the left.
RECURSIVE Replace(_, _, _)
Replace(s, old, new) ==
    IF Len(s) < Len(old) THEN s
    ELSE IF SubSeq(s, 1, Len(old)) = old
         THEN new \o Replace(SubSeq(s, Len(old) + 1, Len(s)), old, new)
         ELSE Head(s) \o Replace(Tail(s), old, new)

\* s with every occurrence of the character c removed: s.replace(c, "").
RECURSIVE Strip(_, _)
Strip(s, c) ==
    IF s = "" THEN ""
    ELSE IF Head(s) = c THEN Strip(Tail(s), c)
         ELSE Head(s) \o Strip(Tail(s), c)

Digits == "0123456789"

IsDigit(c) == \E i \in 1..10 : SubSeq(Digits, i, i) = c

DigitVal(c) == (CHOOSE i \in 1..10 : SubSeq(Digits, i, i) = c) - 1

DigitChar(d) == SubSeq(Digits, d + 1, d + 1)

\* str(n) for a natural number n.
RECURSIVE NatToStr(_)
NatToStr(n) == IF n < 10 THEN DigitChar(n)
               ELSE NatToStr(n \div 10) \o DigitChar(n % 10)

AllDigits(s) == s # "" /\ \A i \in 1..Len(s) : IsDigit(SubSeq(s, i, i))

RECURSIVE DigitsToNat(_)
DigitsToNat(s) == IF s = "" THEN 0
                  ELSE 10 * DigitsToNat(SubSeq(s, 1, Len(s) - 1))
                       + DigitVal(SubSeq(s, Len(s), Len(s)))

\* float(s) on the strings of the model: whole numbers parse, anything
\* else raises ValueError (ok = FALSE).
ParseFloat(s) == IF AllDigits(s) THEN [ok |-> TRUE, v |-> DigitsToNat(s)]
                 ELSE [ok |-> FALSE, v |-> 0]

\* The digits of n with a comma between groups of three: format spec ",".
RECURSIVE GroupThousands(_)
GroupThousands(n) ==
    IF n < 1000 THEN NatToStr(n)
    ELSE LET r == n % 1000
             pad == IF r < 10 THEN "00" ELSE IF r < 100 THEN "0" ELSE ""
         IN  GroupThousands(n \div 1000) \o "," \o pad \o NatToStr(r)

\* f"${total:,.2f}" for a whole number of dollars.
FormatMoney(n) == "$" \o GroupThousands(n) \o ".00"

(***************************************************************************)
(* Policy documents of the store.  _id is an ObjectId, modelled as a       *)
(* record wrapping its hexadecimal text; str(_id) unwraps it.  A coverage  *)
(* area is a pair <<name, value>>; the value is a dict (isdict) that may   *)
(* have a "limit" key (haslimit) whose value is a str or a number.         *)
(***************************************************************************)
ObjectId(hex) == [oid |-> hex]

StrOfId(id) == id.oid

PyStr(s) == [t |-> "str", s |-> s, n |-> 0]
PyNum(n) == [t |-> "num", s |-> "", n |-> n]

\* str(v) for a str or a number.
StrOf(v) == IF v.t = "str" THEN v.s ELSE NatToStr(v.n)

AreaWithLimit(v) == [isdict |-> TRUE, haslimit |-> TRUE, limit |-> v]

\* A health policy with a number, two limits, a deductible and a copayment.
PolHealth ==
    [_id |-> ObjectId("p1"), policy_number |-> "123456", policy_id |-> "",
     policy_type |-> "Health",
     coverage_areas |-> << <<"hospital", AreaWithLimit(PyStr("$1,000"))>>,
                           <<"dental", AreaWithLimit(PyNum(500))>> >>,
     deductible |-> "$500", copayment |-> "20%"]

\* An auto policy with a number and nothing else.
PolAuto ==
    [_id |-> ObjectId("p2"), policy_number |-> "654321", policy_id |-> "",
     policy_type |-> "Auto",
     coverage_areas |-> <<>>,
     deductible |-> "", copayment |-> ""]

\* A policy without number or type whose only limit is not a number.
PolBare ==
    [_id |-> ObjectId("p3"), policy_number |-> "", policy_id |-> "",
     policy_type |-> "",
     coverage_areas |-> << <<"fire", AreaWithLimit(PyStr("Unlimited"))>> >>,
     deductible |-> "$250", copayment |-> ""]

PolicyUniverse == {PolHealth, PolAuto, PolBare}

RECURSIVE SeqsUpTo(_, _)
SeqsUpTo(S, n) ==
    IF n = 0 THEN {<<>>}
    ELSE LET shorter == SeqsUpTo(S, n - 1)
         IN  shorter \cup {Append(q, x) : q \in shorter, x \in S}

NoRepeats(q) == \A i, j \in 1..Len(q) : i # j => q[i] # q[j]

\* What the store can hold for the user: up to MaxPolicies distinct
\* documents, in any order.
PolicyLists == {q \in SeqsUpTo(PolicyUniverse, MaxPolicies) : NoRepeats(q)}

(***************************************************************************)
(* The lookup maps built by analyze_optimal_claim_path.                    *)
(***************************************************************************)
\* policy.get("policy_number", "") or policy.get("policy_id", "")
PolicyNumberOf(p) == IF p.policy_number # "" THEN p.policy_number
                     ELSE p.policy_id

\* One value of policy_map.
PolicyMapEntry(p) ==
    [id |-> StrOfId(p._id),
     policy_type |-> p.policy_type,
     policy_number |-> PolicyNumberOf(p),
     coverage_areas |-> p.coverage_areas,
     deductible |-> p.deductible,
     copayment |-> p.copayment]

\* policy_map: a function from the policy id (a str) to its entry.  A later
\* policy with the same id replaces the earlier one, as a dict assignment.
RECURSIVE PolicyMap(_)
PolicyMap(ps) ==
    IF ps = <<>> THEN <<>>
    ELSE LET last == ps[Len(ps)]
         IN  (StrOfId(last._id) :> PolicyMapEntry(last))
             @@ PolicyMap(SubSeq(ps, 1, Len(ps) - 1))

\* The keys of policy_map in insertion order.
PolicyIds(ps) == [i \in 1..Len(ps) |-> StrOfId(ps[i]._id)]

\* policy_number_map: policy number -> policy id; a later policy with the
\* same number overwrites the entry.
RECURSIVE PolicyNumberMap(_)
PolicyNumberMap(ps) ==
    IF ps = <<>> THEN <<>>
    ELSE LET last == ps[Len(ps)]
             rest == PolicyNumberMap(SubSeq(ps, 1, Len(ps) - 1))
         IN  IF PolicyNumberOf(last) # ""
             THEN (PolicyNumberOf(last) :> StrOfId(last._id)) @@ rest
             ELSE rest

\* policy_id_to_number: policy id -> policy number, for policies having one.
RECURSIVE PolicyIdToNumber(_)
PolicyIdToNumber(ps) ==
    IF ps = <<>> THEN <<>>
    ELSE LET last == ps[Len(ps)]
             rest == PolicyIdToNumber(SubSeq(ps, 1, Len(ps) - 1))
         IN  IF PolicyNumberOf(last) # ""
             THEN (StrOfId(last._id) :> PolicyNumberOf(last)) @@ rest
             ELSE rest

\* The keyword under which a lower-cased type (or token) is filed: the
\* first of health, auto, home that it contains (the if/elif chain), or ""
\* when it contains none.
KeywordOf(lowered) ==
    IF Contains(lowered, "health") THEN "health"
    ELSE IF Contains(lowered, "auto") THEN "auto"
    ELSE IF Contains(lowered, "home") THEN "home"
    ELSE ""

\* policy_type_map: keyword -> policy id, filled in the order of policy_map;
\* a later policy of the same kind overwrites the entry.
RECURSIVE PolicyTypeMap(_)
PolicyTypeMap(ps) ==
    IF ps = <<>> THEN <<>>
    ELSE LET last == ps[Len(ps)]
             rest == PolicyTypeMap(SubSeq(ps, 1, Len(ps) - 1))
             kw == KeywordOf(Lower(last.policy_type))
         IN  IF kw # "" THEN (kw :> StrOfId(last._id)) @@ rest ELSE rest

(***************************************************************************)
(* re.findall(r'policy\s+(?:number\s+)?(\d{6})', explanation, IGNORECASE)  *)
(***************************************************************************)
IsSpace(c) == c \in {" ", "\t", "\n", "\r"}

\* The number of leading whitespace characters of s.
RECURSIVE LeadingSpaces(_)
LeadingSpaces(s) ==
    IF s # "" /\ IsSpace(Head(s)) THEN 1 + LeadingSpaces(Tail(s)) ELSE 0

SixDigitsAt(s) == Len(s) >= 6 /\ AllDigits(SubSeq(s, 1, 6))

\* A match of the pattern anchored at the start of s: whether there is one,
\* the captured group and the length of the matched text.
MatchPolicyNumberAt(s) ==
    LET nomatch == [ok |-> FALSE, group |-> "", len |-> 0]
    IN  IF Len(s) < 6 \/ Lower(SubSeq(s, 1, 6)) # "policy" THEN nomatch
        ELSE LET a == SubSeq(s, 7, Len(s))
                 k == LeadingSpaces(a)
                 b == SubSeq(a, k + 1, Len(a))
             IN  IF k = 0 THEN nomatch
                 ELSE LET c == SubSeq(b, 7, Len(b))
                          m == LeadingSpaces(c)
                          d == SubSeq(c, m + 1, Len(c))
                      IN  IF Len(b) >= 6 /\ Lower(SubSeq(b, 1, 6)) = "number"
                             /\ m > 0 /\ SixDigitsAt(d)
                          THEN [ok |-> TRUE, group |-> SubSeq(d, 1, 6),
                                len |-> 6 + k + 6 + m + 6]
                          ELSE IF SixDigitsAt(b)
                          THEN [ok |-> TRUE, group |-> SubSeq(b, 1, 6),
                                len |-> 6 + k + 6]
                          ELSE nomatch

\* The captured groups of the non-overlapping matches, from left to right.
RECURSIVE FindPolicyNumbers(_)
FindPolicyNumbers(s) ==
    IF s = "" THEN <<>>
    ELSE LET m == MatchPolicyNumberAt(s)
         IN  IF m.ok
             THEN <<m.group>> \o FindPolicyNumbers(SubSeq(s, m.len + 1, Len(s)))
             ELSE FindPolicyNumbers(Tail(s))

\* q without the later repetitions of its elements: list(dict.fromkeys(q)).
RECURSIVE DedupKeepFirst(_)
DedupKeepFirst(q) ==
    IF q = <<>> THEN <<>>
    ELSE LET init == DedupKeepFirst(SubSeq(q, 1, Len(q) - 1))
             x == q[Len(q)]
         IN  IF \E i \in 1..Len(init) : init[i] = x THEN init
             ELSE Append(init, x)

Range(q) == {q[i] : i \in 1..Len(q)}

\* policy_numbers: the ids of the policies whose number the explanation
\* mentions, as list(policy_numbers.values()) returns them (a dict keeps the
\* order in which its keys were first inserted).
ExtractedPolicyIds(explanation, pnm) ==
    LET found == DedupKeepFirst(FindPolicyNumbers(explanation))
        known == SelectSeq(found, LAMBDA n : n \in DOMAIN pnm)
    IN  [i \in 1..Len(known) |-> pnm[known[i]]]

(***************************************************************************)
(* Resolution of one token of the oracle (lines 284-297, repeated at       *)
(* 397-410 for the filing order).                                          *)
(***************************************************************************)
\* The token is not a key of either map and is not a str: .lower() raises
\* AttributeError.
TokenRaises(tok, pm, pnm) ==
    tok \notin DOMAIN pm /\ tok \notin DOMAIN pnm /\ ~IsStr(tok)

\* The ids appended for the token when the policy numbers are looked up
\* before the policy ids.
ResolveTokenByNumberFirst(tok, pm, pnm, ptm) ==
    IF tok \in DOMAIN pnm THEN <<pnm[tok]>>
    ELSE IF tok \in DOMAIN pm THEN <<tok>>
    ELSE LET kw == KeywordOf(Lower(tok))
         IN  IF kw # "" /\ kw \in DOMAIN ptm THEN <<ptm[kw]>> ELSE <<>>

\* The ids appended for the token: one id or none.
ResolveToken(tok, pm, pnm, ptm) ==
    IF tok \in DOMAIN pm THEN <<tok>>
    ELSE IF tok \in DOMAIN pnm THEN <<pnm[tok]>>
    ELSE LET policy_type == Lower(tok)
         IN  IF Contains(policy_type, "health") /\ "health" \in DOMAIN ptm
             THEN <<ptm["health"]>>
             ELSE IF Contains(policy_type, "auto") /\ "auto" \in DOMAIN ptm
             THEN <<ptm["auto"]>>
             ELSE IF Contains(policy_type, "home") /\ "home" \in DOMAIN ptm
             THEN <<ptm["home"]>>
             ELSE <<>>

RECURSIVE ResolveTokens(_, _, _, _)
ResolveTokens(toks, pm, pnm, ptm) ==
    IF toks = <<>> THEN <<>>
    ELSE ResolveToken(Head(toks), pm, pnm, ptm)
         \o ResolveTokens(Tail(toks), pm, pnm, ptm)

AnyTokenRaises(toks, pm, pnm) ==
    \E i \in 1..Len(toks) : TokenRaises(toks[i], pm, pnm)

\* The resolved ids as appended, repetitions kept.
ListKeepingRepeats(q, order) == q

\* list(set(q)): the distinct elements of q in the iteration order of the
\* set, which the hashes of the strings decide; order is a listing of all
\* policy ids that stands for that iteration order.
ListOfSet(q, order) == SelectSeq(order, LAMBDA x : x \in Range(q))

\* recommendations.get(key) is truthy, for a list-valued key.
Truthy(r, key) == key \in r.has /\ r[key] # <<>>

\* recommendations.get("explanation") is truthy.
TruthyExplanation(r) == "explanation" \in r.has /\ r.explanation # ""

\* recommendations[key] = value
SetKey(r, key, value) == [r EXCEPT ![key] = value, !.has = @ \cup {key}]

Raise(st) == [st EXCEPT !.raised = TRUE]

\* Lines 279-298: map the applicable policies to policy ids.
MapApplicable(st, pm, pnm, ptm, order) ==
    IF st.raised \/ ~Truthy(st.r, "applicable_policies") THEN st
    ELSE IF AnyTokenRaises(st.r.applicable_policies, pm, pnm) THEN Raise(st)
    ELSE [st EXCEPT !.r = SetKey(@, "applicable_policies",
              ListOfSet(ResolveTokens(st.r.applicable_policies, pm, pnm, ptm),
                        order))]

\* Lines 300-302: with no applicable policy, take the policies whose number
\* the explanation mentions.
ApplicableFromExplanation(st, policy_numbers) ==
    IF st.raised \/ Truthy(st.r, "applicable_policies")
       \/ policy_numbers = <<>>
    THEN st
    ELSE [st EXCEPT !.r = SetKey(@, "applicable_policies", policy_numbers)]

(***************************************************************************)
(* Coverage details.  A detail of the oracle is a dict (isdict) with the   *)
(* optional keys policy_id, estimated_coverage, deductible and copay, or   *)
(* something that is not a dict.                                           *)
(***************************************************************************)
Placeholder == "See policy for details"

\* The sum of the limits that are strings, a numeric limit counting for
\* nothing.
RECURSIVE SumLimitsOfStrings(_)
SumLimitsOfStrings(areas) ==
    IF areas = <<>> THEN [ok |-> TRUE, v |-> 0]
    ELSE LET area == Head(areas)[2]
             rest == SumLimitsOfStrings(Tail(areas))
         IN  IF area.isdict /\ area.haslimit /\ area.limit.t = "str"
             THEN LET f == ParseFloat(Strip(Strip(area.limit.s, "$"), ","))
                  IN  [ok |-> f.ok /\ rest.ok, v |-> f.v + rest.v]
             ELSE rest

\* sum(float(str(area.get("limit", "0")).replace("$", "").replace(",", ""))
\*     for area in coverage_areas.values()
\*     if isinstance(area, dict) and "limit" in area)
\* ok is FALSE when some float() raises ValueError.
RECURSIVE SumLimits(_)
SumLimits(areas) ==
    IF areas = <<>> THEN [ok |-> TRUE, v |-> 0]
    ELSE LET area == Head(areas)[2]
             rest == SumLimits(Tail(areas))
         IN  IF area.isdict /\ area.haslimit
             THEN LET f == ParseFloat(Strip(Strip(StrOf(area.limit), "$"), ","))
                  IN  [ok |-> f.ok /\ rest.ok, v |-> f.v + rest.v]
             ELSE rest

\* detail.get("policy_id", "")
DetailPolicyId(d) == IF "policy_id" \in d.has THEN d.policy_id ELSE ""

\* Lines 314-328 and 333-347: point the detail at the policy and fill the
\* keys it lacks from the policy's entry.
FillDetail(d, actual_id, policy) ==
    LET d1 == SetKey(d, "policy_id", actual_id)
        d2 == IF "estimated_coverage" \notin d1.has
                 /\ policy.coverage_areas # <<>>
              THEN SetKey(d1, "estimated_coverage",
                          FormatMoney(SumLimits(policy.coverage_areas).v))
              ELSE d1
        d3 == IF "deductible" \notin d2.has /\ policy.deductible # ""
              THEN SetKey(d2, "deductible", policy.deductible)
              ELSE d2
    IN  IF "copay" \notin d3.has /\ policy.copayment # ""
        THEN SetKey(d3, "copay", policy.copayment)
        ELSE d3

FillDetailRaises(d, policy) ==
    /\ "estimated_coverage" \notin d.has
    /\ policy.coverage_areas # <<>>
    /\ ~SumLimits(policy.coverage_areas).ok

\* One iteration of the loop of lines 309-363: whether it raises, and the
\* details it appends to actual_coverage_details.
MapDetail(d, pm, pnm, ptm) ==
    LET raises == [raised |-> TRUE, out |-> <<>>]
        policy_id == DetailPolicyId(d)
    IN  IF ~d.isdict THEN raises
        ELSE IF policy_id \in DOMAIN pm
        THEN \* filled in place, but never appended
             [raised |-> FillDetailRaises(d, pm[policy_id]), out |-> <<>>]
        ELSE IF policy_id \in DOMAIN pnm
        THEN LET actual_id == pnm[policy_id]
             IN  [raised |-> FillDetailRaises(d, pm[actual_id]),
                  out |-> <<FillDetail(d, actual_id, pm[actual_id])>>]
        ELSE IF ~IsStr(policy_id) THEN raises
        ELSE LET policy_type == Lower(policy_id)
                 hit(kw) == Contains(policy_type, kw) /\ kw \in DOMAIN ptm
                 as(kw) == [raised |-> FALSE,
                            out |-> <<SetKey(d, "policy_id", ptm[kw])>>]
             IN  IF hit("health") THEN as("health")
                 ELSE IF hit("auto") THEN as("auto")
                 ELSE IF hit("home") THEN as("home")
                 ELSE [raised |-> FALSE, out |-> <<>>]

RECURSIVE MapDetails(_, _, _, _)
MapDetails(ds, pm, pnm, ptm) ==
    IF ds = <<>> THEN [raised |-> FALSE, out |-> <<>>]
    ELSE LET first == MapDetail(Head(ds), pm, pnm, ptm)
             rest == MapDetails(Tail(ds), pm, pnm, ptm)
         IN  [raised |-> first.raised \/ rest.raised,
              out |-> first.out \o rest.out]

\* Lines 306-364: map the coverage details to policy ids.
MapCoverageDetails(st, pm, pnm, ptm) ==
    IF st.raised \/ ~Truthy(st.r, "coverage_details") THEN st
    ELSE LET m == MapDetails(st.r.coverage_details, pm, pnm, ptm)
         IN  IF m.raised THEN Raise(st)
             ELSE [st EXCEPT !.r = SetKey(@, "coverage_details", m.out)]

\* Lines 370-387: the detail built from the policy's own entry.
SynthesizeDetail(policy_id, policy) ==
    LET total == SumLimits(policy.coverage_areas).v
    IN  [isdict |-> TRUE,
         has |-> {"policy_id", "estimated_coverage", "deductible", "copay"},
         policy_id |-> policy_id,
         estimated_coverage |->
             IF policy.coverage_areas # <<>> /\ total > 0
             THEN FormatMoney(total) ELSE Placeholder,
         deductible |-> IF policy.deductible # "" THEN policy.deductible
                        ELSE Placeholder,
         copay |-> IF policy.copayment # "" THEN policy.copayment
                   ELSE Placeholder]

\* Lines 366-391: with no coverage detail left, build one per applicable
\* policy.
SynthesizeCoverageDetails(st, pm) ==
    IF st.raised \/ Truthy(st.r, "coverage_details")
       \/ ~Truthy(st.r, "applicable_policies")
    THEN st
    ELSE LET known == SelectSeq(st.r.applicable_policies,
                                LAMBDA id : id \in DOMAIN pm)
         IN  IF \E i \in 1..Len(known) :
                   ~SumLimits(pm[known[i]].coverage_areas).ok
             THEN Raise(st)
             ELSE IF known = <<>> THEN st
             ELSE [st EXCEPT !.r = SetKey(@, "coverage_details",
                       [i \in 1..Len(known) |->
                           SynthesizeDetail(known[i], pm[known[i]])])]

(***************************************************************************)
(* Filing order, limitations, explanation and display labels.              *)
(***************************************************************************)
\* The filing order mapped token by token, a policy listed as often as it
\* is referred to.
MapFilingOrderKeepingRepeats(st, pm, pnm, ptm) ==
    IF st.raised \/ ~Truthy(st.r, "filing_order") THEN st
    ELSE IF AnyTokenRaises(st.r.filing_order, pm, pnm) THEN Raise(st)
    ELSE [st EXCEPT !.r = SetKey(@, "filing_order",
              ResolveTokens(st.r.filing_order, pm, pnm, ptm))]

\* Lines 393-411: map the filing order to policy ids.
MapFilingOrder(st, pm, pnm, ptm) ==
    IF st.raised \/ ~Truthy(st.r, "filing_order") THEN st
    ELSE IF AnyTokenRaises(st.r.filing_order, pm, pnm) THEN Raise(st)
    ELSE [st EXCEPT !.r = SetKey(@, "filing_order",
              DedupKeepFirst(ResolveTokens(st.r.filing_order, pm, pnm, ptm)))]

\* The recommendation with its filing order left as mapped.
KeepFilingOrder(st) == st

\* Lines 413-415: with no filing order, file in the order of the applicable
\* policies.
DefaultFilingOrder(st) ==
    IF st.raised \/ Truthy(st.r, "filing_order")
       \/ ~Truthy(st.r, "applicable_policies")
    THEN st
    ELSE [st EXCEPT !.r = SetKey(@, "filing_order", @.applicable_policies)]

DefaultLimitations == <<"See policy for specific limitations and exclusions.">>

\* A variant that supplies the default only when the key is missing and
\* leaves an empty list as it is.
EnsureLimitationsWhenAbsent(st) ==
    IF st.raised \/ "limitations" \in st.r.has THEN st
    ELSE [st EXCEPT !.r = SetKey(@, "limitations", DefaultLimitations)]

\* Lines 417-419.
EnsureLimitations(st) ==
    IF st.raised \/ Truthy(st.r, "limitations") THEN st
    ELSE [st EXCEPT !.r = SetKey(@, "limitations", DefaultLimitations)]

\* Lines 426-432: the two replacements made for one applicable policy.
RewriteForPolicy(explanation, policy_id, policy) ==
    LET policy_number == policy.policy_number
        policy_type == policy.policy_type
        first == Replace(explanation,
                         policy_type \o " insurance policy",
                         policy_type \o " insurance policy " \o policy_number)
    IN  Replace(first, "policy " \o policy_id, "policy " \o policy_number)

\* Lines 423-433: the explanation rewritten for each applicable policy in
\* turn.
RECURSIVE Rewrite(_, _, _)
Rewrite(explanation, ids, pm) ==
    IF ids = <<>> THEN explanation
    ELSE LET policy_id == Head(ids)
             next == IF policy_id \in DOMAIN pm
                     THEN RewriteForPolicy(explanation, policy_id, pm[policy_id])
                     ELSE explanation
         IN  Rewrite(next, Tail(ids), pm)

\* Lines 421-434.
RewriteExplanation(st, pm) ==
    IF st.raised \/ ~TruthyExplanation(st.r)
       \/ ~Truthy(st.r, "applicable_policies")
    THEN st
    ELSE [st EXCEPT !.r = SetKey(@, "explanation",
              Rewrite(st.r.explanation, st.r.applicable_policies, pm))]

\* recommendations.get("applicable_policies", [])
ApplicableOrEmpty(r) ==
    IF "applicable_policies" \in r.has THEN r.applicable_policies ELSE <<>>

\* Lines 436-440: the number of every applicable policy that has one, as
\* pairs <<policy id, policy number>> in insertion order.
AddPolicyNumbers(st, idnum) ==
    IF st.raised THEN st
    ELSE LET numbered == SelectSeq(DedupKeepFirst(ApplicableOrEmpty(st.r)),
                                   LAMBDA id : id \in DOMAIN idnum)
         IN  [st EXCEPT !.r = SetKey(@, "policy_numbers",
                   [i \in 1..Len(numbered) |->
                       <<numbered[i], idnum[numbered[i]]>>])]

\* ', '.join(names)
RECURSIVE JoinComma(_)
JoinComma(names) ==
    IF names = <<>> THEN ""
    ELSE IF Len(names) = 1 THEN names[1]
    ELSE names[1] \o ", " \o JoinComma(Tail(names))

\* f"Policy {policy_id_to_number.get(policy_id, policy_id)} ({', '.join(
\*    policy_map[policy_id]['coverage_areas'].keys())})..."
DisplayLabel(policy_id, pm, idnum) ==
    LET areas == pm[policy_id].coverage_areas
        names == [i \in 1..Len(areas) |-> areas[i][1]]
    IN  "Policy "
        \o (IF policy_id \in DOMAIN idnum THEN idnum[policy_id] ELSE policy_id)
        \o " (" \o JoinComma(names) \o ")..."

\* The list comprehension of lines 444-448 and 458-462.
LabelList(ids, pm, idnum) ==
    LET known == SelectSeq(ids, LAMBDA id : id \in DOMAIN pm)
    IN  [i \in 1..Len(known) |-> DisplayLabel(known[i], pm, idnum)]

\* Lines 442-448.
LabelApplicable(st, pm, idnum) ==
    IF st.raised \/ ~Truthy(st.r, "applicable_policies") THEN st
    ELSE [st EXCEPT !.r = SetKey(@, "applicable_policies",
              LabelList(st.r.applicable_policies, pm, idnum))]

\* Lines 450-455.
LabelCoverageDetails(st, pm, idnum) ==
    IF st.raised \/ ~Truthy(st.r, "coverage_details") THEN st
    ELSE [st EXCEPT !.r = SetKey(@, "coverage_details",
              [i \in 1..Len(st.r.coverage_details) |->
                  LET detail == st.r.coverage_details[i]
                      policy_id == DetailPolicyId(detail)
                  IN  IF policy_id \in DOMAIN pm
                      THEN SetKey(detail, "policy_id",
                                  DisplayLabel(policy_id, pm, idnum))
                      ELSE detail])]

\* Lines 457-462.
LabelFilingOrder(st, pm, idnum) ==
    IF st.raised \/ ~Truthy(st.r, "filing_order") THEN st
    ELSE [st EXCEPT !.r = SetKey(@, "filing_order",
              LabelList(st.r.filing_order, pm, idnum))]

(***************************************************************************)
(* The whole reconciliation (lines 223-469) on the policies read from the  *)
(* store and the recommendation returned by the oracle.  The dict returned *)
(* by the oracle is updated in place and returned.                         *)
(***************************************************************************)
\* The value of recommendations["applicable_policies"] logged at line 304.
AfterMapping(ps, r, order) ==
    LET pm == PolicyMap(ps)
        pnm == PolicyNumberMap(ps)
        ptm == PolicyTypeMap(ps)
        policy_numbers == IF TruthyExplanation(r)
                          THEN ExtractedPolicyIds(r.explanation, pnm)
                          ELSE <<>>
    IN  ApplicableFromExplanation(
            MapApplicable([raised |-> FALSE, r |-> r], pm, pnm, ptm, order),
            policy_numbers)

Reconciled(ps, r, order) ==
    LET pm == PolicyMap(ps)
        pnm == PolicyNumberMap(ps)
        ptm == PolicyTypeMap(ps)
        idnum == PolicyIdToNumber(ps)
        s1 == AfterMapping(ps, r, order)
        s2 == MapCoverageDetails(s1, pm, pnm, ptm)
        s3 == SynthesizeCoverageDetails(s2, pm)
        s4 == MapFilingOrder(s3, pm, pnm, ptm)
        s5 == DefaultFilingOrder(s4)
        s6 == EnsureLimitations(s5)
        s7 == RewriteExplanation(s6, pm)
        s8 == AddPolicyNumbers(s7, idnum)
        s9 == LabelApplicable(s8, pm, idnum)
        s10 == LabelCoverageDetails(s9, pm, idnum)
    IN  LabelFilingOrder(s10, pm, idnum)

(***************************************************************************)
(* What recommend_claim_options can return for a non-empty policy list     *)
(* (src/app/services/nlp_service.py): the configuration-error dict, which  *)
(* has none of the five keys, or the model's JSON answer completed with    *)
(* the missing keys, whose values are whatever the model wrote.            *)
(***************************************************************************)
RecommendationKeys == {"applicable_policies", "coverage_details",
                       "filing_order", "limitations", "explanation"}

NoRecommendation ==
    [has |-> {}, applicable_policies |-> <<>>, coverage_details |-> <<>>,
     filing_order |-> <<>>, limitations |-> <<>>, explanation |-> "",
     policy_numbers |-> <<>>]

Answer(applicable, details, filing, limitations, explanation) ==
    [has |-> RecommendationKeys, applicable_policies |-> applicable,
     coverage_details |-> details, filing_order |-> filing,
     limitations |-> limitations, explanation |-> explanation,
     policy_numbers |-> <<>>]

\* Tokens of the oracle: policy ids, a policy number, a type name, an
\* invented id and a JSON number.
Tokens == {"p2", "p3", "123456", "Health plan", "ghost-id", IntTok}

ReferenceTokens == {"p2", "123456"}

FilingTokens == {"p2", "123456", "ghost-id"}

DetailTokens == {"p1", "123456", "654321", "Health plan"}

FullDetail(tok) ==
    [isdict |-> TRUE,
     has |-> {"policy_id", "estimated_coverage", "deductible", "copay"},
     policy_id |-> tok, estimated_coverage |-> "$100",
     deductible |-> "$10", copay |-> "5%"]

BareDetail(tok) ==
    [isdict |-> TRUE, has |-> {"policy_id"},
     policy_id |-> tok, estimated_coverage |-> "",
     deductible |-> "", copay |-> ""]

\* A coverage detail that is a JSON string instead of an object.
NotADict ==
    [isdict |-> FALSE, has |-> {},
     policy_id |-> "", estimated_coverage |-> "",
     deductible |-> "", copay |-> ""]

Details == {FullDetail(t) : t \in DetailTokens}
           \cup {BareDetail(t) : t \in DetailTokens}
           \cup {NotADict}

LimitationLists == {<<>>, <<"Pre-existing conditions are excluded.">>}

Explanations == {"", "Health insurance policy", "Use policy p2",
                 "policy number 123456"}

TokenLists == SeqsUpTo(Tokens, MaxTokens)

\* The answers considered: any token list with any limitations and
\* explanation, and the lists of well-formed references to the policies
\* p1 and p2 with any coverage details or any filing order.
RawRecommendations ==
    {NoRecommendation}
    \cup {Answer(a, <<>>, <<>>, l, e) :
            a \in TokenLists, l \in LimitationLists, e \in Explanations}
    \cup {Answer(a, d, <<>>, <<>>, "") :
            a \in SeqsUpTo(ReferenceTokens, MaxTokens),
            d \in SeqsUpTo(Details, MaxDetails)}
    \cup {Answer(a, <<>>, f, <<>>, "") :
            a \in SeqsUpTo(ReferenceTokens, MaxTokens),
            f \in SeqsUpTo(FilingTokens, MaxTokens)}

\* The possible iteration orders of a set of policy ids.
Orders(ps) ==
    {o \in SeqsUpTo(Range(PolicyIds(ps)), Len(ps)) :
        Len(o) = Len(ps) /\ NoRepeats(o)}

(***************************************************************************)
(* One call of analyze_optimal_claim_path, split at its two awaits.        *)
(***************************************************************************)
Pending ==
    [status |-> "pending", message |-> "", recommendations |-> NoRecommendation]

NoPoliciesMessage ==
    "No policies found. Please upload your insurance policies first."

Init ==
    /\ store \in PolicyLists
    /\ pc = "start"
    /\ policies = <<>>
    /\ raw = NoRecommendation
    /\ mapped = <<>>
    /\ result = Pending
    /\ calls = <<>>
    /\ frames = <<>>
    /\ hash_order = <<>>
    /\ HandlerIdle

\* The fetch without the early return: the call goes on to the oracle
\* whatever the store holds.
GetPoliciesWithoutGuard ==
    /\ pc = "start"
    /\ policies' = store
    /\ result' = result
    /\ pc' = "oracle"
    /\ UNCHANGED <<store, raw, mapped>>
    /\ UNCHANGED concurrent_vars
    /\ UNCHANGED handler_vars

\* Lines 213-219: await db.get_policies(user_id), and the early return.
GetPolicies ==
    /\ pc = "start"
    /\ policies' = store
    /\ IF store = <<>>
       THEN /\ result' = [Pending EXCEPT !.status = "failure",
                                         !.message = NoPoliciesMessage]
            /\ pc' = "done"
       ELSE /\ result' = result
            /\ pc' = "oracle"
    /\ UNCHANGED <<store, raw, mapped>>
    /\ UNCHANGED concurrent_vars
    /\ UNCHANGED handler_vars

\* Line 251: await recommend_claim_options(policies, situation).
RecommendClaimOptions ==
    /\ pc = "oracle"
    /\ raw' \in RawRecommendations
    /\ pc' = "reconcile"
    /\ UNCHANGED <<store, policies, mapped, result>>
    /\ UNCHANGED concurrent_vars
    /\ UNCHANGED handler_vars

\* A reconciliation that empties the coverage areas of the fetched records
\* while reading them.
ReconcileConsumingAreas ==
    /\ pc = "reconcile"
    /\ policies' = [i \in 1..Len(policies) |->
                       [policies[i] EXCEPT !.coverage_areas = <<>>]]
    /\ result' = [Pending EXCEPT !.status = "success"]
    /\ pc' = "done"
    /\ UNCHANGED <<store, raw, mapped>>
    /\ UNCHANGED concurrent_vars
    /\ UNCHANGED handler_vars

\* Lines 223-246 and 255-469: the maps, the reconciliation and the return;
\* an exception leaves the function instead.
Reconcile ==
    /\ pc = "reconcile"
    /\ \E order \in Orders(policies) :
         LET st == Reconciled(policies, raw, order)
             at304 == AfterMapping(policies, raw, order)
         IN  /\ result' = IF st.raised
                          THEN [Pending EXCEPT !.status = "raised"]
                          ELSE [Pending EXCEPT !.status = "success",
                                               !.recommendations = st.r]
             /\ mapped' = IF at304.raised THEN <<>>
                          ELSE ApplicableOrEmpty(at304.r)
    /\ pc' = "done"
    /\ UNCHANGED <<store, policies, raw>>
    /\ UNCHANGED concurrent_vars
    /\ UNCHANGED handler_vars

Next == GetPolicies \/ RecommendClaimOptions \/ Reconcile

Spec == Init /\ [][Next]_vars

(***************************************************************************)
(* The same call on stores where the three ways of resolving a token       *)
(* compete: a policy number that is also the id of another policy, a       *)
(* policy number that contains a type keyword, and a policy type that      *)
(* contains two keywords, and two policies with the same number and the    *)
(* same kind of type.  The oracle answers with at most one token in        *)
(* applicable_policies and in filing_order, or with a longer filing order, *)
(* or with an explanation to rewrite.                                      *)
(***************************************************************************)
\* A policy without type whose number contains the keyword "auto".
PolTagged ==
    [_id |-> ObjectId("p5"), policy_number |-> "AUTO-77", policy_id |-> "",
     policy_type |-> "",
     coverage_areas |-> <<>>,
     deductible |-> "", copayment |-> ""]

\* A policy whose number is the id of PolTagged and whose type contains
\* both "auto" and "home".
PolAlias ==
    [_id |-> ObjectId("p4"), policy_number |-> "p5", policy_id |-> "",
     policy_type |-> "Auto & Home",
     coverage_areas |-> <<>>,
     deductible |-> "", copayment |-> ""]

\* A second health policy carrying the number of PolHealth.
PolTwin ==
    [_id |-> ObjectId("p6"), policy_number |-> "123456", policy_id |-> "",
     policy_type |-> "Health Plus",
     coverage_areas |-> <<>>,
     deductible |-> "", copayment |-> ""]

TierUniverse == {PolHealth, PolAuto, PolTagged, PolAlias, PolTwin}

TierPolicyLists == {q \in SeqsUpTo(TierUniverse, MaxPolicies) : NoRepeats(q)}

TierTokens == {"p5", "AUTO-77", "123456", "Health insurance",
               "auto insurance", "home insurance", "ghost-id"}

\* Filing tokens: the id and the number of PolTagged, and the number that
\* PolHealth and PolTwin share.
TierFilingTokens == {"p5", "AUTO-77", "123456"}

TierExplanations == {"Auto insurance policy", "Nothing to rewrite"}

TierAnswers ==
    {Answer(a, <<>>, f, <<>>, "") :
        a \in SeqsUpTo(TierTokens, 1), f \in SeqsUpTo(TierTokens, 1)}
    \cup {Answer(<<"123456">>, <<>>, f, <<>>, "") :
            f \in SeqsUpTo(TierFilingTokens, MaxTokens)}
    \cup {Answer(<<a>>, <<>>, <<>>, <<>>, e) :
            a \in {"p5", "654321"}, e \in TierExplanations}

InitTiers ==
    /\ store \in TierPolicyLists
    /\ pc = "start"
    /\ policies = <<>>
    /\ raw = NoRecommendation
    /\ mapped = <<>>
    /\ result = Pending
    /\ calls = <<>>
    /\ frames = <<>>
    /\ hash_order = <<>>
    /\ HandlerIdle

\* Line 251, for the answers above.
RecommendOneToken ==
    /\ pc = "oracle"
    /\ raw' \in TierAnswers
    /\ pc' = "reconcile"
    /\ UNCHANGED <<store, policies, mapped, result>>
    /\ UNCHANGED concurrent_vars
    /\ UNCHANGED handler_vars

NextTiers == GetPolicies \/ RecommendOneToken \/ Reconcile

SpecTiers == InitTiers /\ [][NextTiers]_vars

(***************************************************************************)
(* Several calls of analyze_optimal_claim_path running as coroutines of    *)
(* one asyncio process (the handlers of the bot), interleaved at the two   *)
(* awaits.  calls[i] is the position of call i, the answer the oracle gave *)
(* it, the value returned to its caller, and whether another call ran      *)
(* while it was suspended.  frames[f] holds the locals of a coroutine      *)
(* frame.  hash_order is the iteration order of a set of policy ids in the *)
(* running process; it is fixed by the hash seed the interpreter draws at  *)
(* start-up, so a restart of the bot can change it.                        *)
(***************************************************************************)
NumInvocations == 2

Invocations == 1..NumInvocations

\* All calls using one set of names, as module-level globals would be.
SharedFrame(i) == 1

\* The frame of call i: policies, the maps and recommendations are local
\* names of the coroutine, one frame per call.
FrameOf(i) == i

ConcurrentStores == {<<>>, <<PolAuto>>, <<PolHealth, PolAuto>>}

ConcurrentAnswers ==
    {Answer(<<"123456", "p2">>, <<>>, <<>>, <<>>, ""),
     Answer(<<"p2">>, <<>>, <<>>, <<>>, "")}

IdleCall ==
    [pc |-> "start", answer |-> NoRecommendation, returned |-> Pending,
     overlapped |-> FALSE]

EmptyFrame == [policies |-> <<>>, recommendations |-> NoRecommendation]

NoPolicies ==
    [Pending EXCEPT !.status = "failure", !.message = NoPoliciesMessage]

\* What the call returns after lines 223-469 ended in st, or the exception
\* it leaves with.
Outcome(st) ==
    IF st.raised THEN [Pending EXCEPT !.status = "raised"]
    ELSE [Pending EXCEPT !.status = "success", !.recommendations = st.r]

InFlight(c) == c.pc \in {"oracle", "reconcile"}

\* calls after call i moved to cnew: the calls suspended meanwhile, and i
\* itself if there are any, have been interleaved with another call.
AfterStep(i, cnew) ==
    LET others == \E j \in Invocations : j # i /\ InFlight(calls[j])
    IN  [j \in Invocations |->
            IF j = i THEN [cnew EXCEPT !.overlapped = @ \/ others]
            ELSE IF InFlight(calls[j]) THEN [calls[j] EXCEPT !.overlapped = TRUE]
            ELSE calls[j]]

sequential_vars == <<pc, policies, raw, mapped, result>>

InitConcurrent ==
    /\ store \in ConcurrentStores
    /\ pc = "start"
    /\ policies = <<>>
    /\ raw = NoRecommendation
    /\ mapped = <<>>
    /\ result = Pending
    /\ calls = [i \in Invocations |-> IdleCall]
    /\ frames = [f \in Invocations |-> EmptyFrame]
    /\ hash_order \in Orders(store)
    /\ HandlerIdle

\* Lines 213-219 in call i.
CallGetPolicies(i) ==
    /\ calls[i].pc = "start"
    /\ frames' = [frames EXCEPT ![FrameOf(i)].policies = store]
    /\ calls' = AfterStep(i,
           IF store = <<>>
           THEN [calls[i] EXCEPT !.pc = "done", !.returned = NoPolicies]
           ELSE [calls[i] EXCEPT !.pc = "oracle"])
    /\ UNCHANGED <<store, hash_order>>
    /\ UNCHANGED sequential_vars
    /\ UNCHANGED handler_vars

\* Line 251 in call i: the oracle's answer is bound to recommendations.
CallRecommend(i) ==
    /\ calls[i].pc = "oracle"
    /\ \E r \in ConcurrentAnswers :
         /\ frames' = [frames EXCEPT ![FrameOf(i)].recommendations = r]
         /\ calls' = AfterStep(i, [calls[i] EXCEPT !.pc = "reconcile",
                                                   !.answer = r])
    /\ UNCHANGED <<store, hash_order>>
    /\ UNCHANGED sequential_vars
    /\ UNCHANGED handler_vars

\* Lines 223-246 and 255-469 in call i, on the locals of its frame.
CallReconcile(i) ==
    /\ calls[i].pc = "reconcile"
    /\ \E st \in {Reconciled(frames[FrameOf(i)].policies,
                              frames[FrameOf(i)].recommendations,
                              hash_order)} :
         /\ calls' = AfterStep(i, [calls[i] EXCEPT !.pc = "done",
                                                   !.returned = Outcome(st)])
         \* recommendations was updated in place up to the return or the
         \* exception.
         /\ frames' = [frames EXCEPT ![FrameOf(i)].recommendations = st.r]
    /\ UNCHANGED <<store, hash_order>>
    /\ UNCHANGED sequential_vars
    /\ UNCHANGED handler_vars

\* The bot is stopped while no call is running and started again: the new
\* interpreter draws another hash seed, the frames are gone, and what was
\* returned to the callers stays returned.
Restart ==
    /\ \A i \in Invocations : ~InFlight(calls[i])
    /\ hash_order' \in Orders(store) \ {hash_order}
    /\ frames' = [f \in Invocations |-> EmptyFrame]
    /\ UNCHANGED <<store, calls>>
    /\ UNCHANGED sequential_vars
    /\ UNCHANGED handler_vars

NextConcurrent ==
    \/ \E i \in Invocations : CallGetPolicies(i)
    \/ \E i \in Invocations : CallRecommend(i)
    \/ \E i \in Invocations : CallReconcile(i)
    \/ Restart

SpecConcurrent == InitConcurrent /\ [][NextConcurrent]_vars

(***************************************************************************)
(* handle_situation_description: the handler of a message received in the  *)
(* state entering_situation.  It is split at its awaits; an await on       *)
(* Telegram or on the database returns or raises.  The call of             *)
(* analyze_optimal_claim_path is the three steps of the function above.    *)
(***************************************************************************)
HandlerStores ==
    {<<>>, <<PolAuto>>, <<PolHealth>>, <<PolHealth, PolAuto>>,
     <<PolAuto, PolHealth>>}

\* Answers of the oracle: policies named by id, by number, by both, and a
\* token that is not a string, on which the function raises.
HandlerAnswers ==
    {Answer(<<"p2">>, <<>>, <<>>, <<>>, ""),
     Answer(<<"654321">>, <<>>, <<>>, <<>>, ""),
     Answer(<<"123456", "p2">>, <<>>, <<>>, <<>>, ""),
     Answer(<<"p1">>, <<>>, <<"p1", "p2">>, <<>>, ""),
     Answer(<<IntTok>>, <<>>, <<>>, <<>>, "")}

\* get_main_menu_keyboard: the callback data of its buttons.
MainMenuKeyboard ==
    <<"upload_policy", "ask_question", "create_claim", "track_claims",
      "claim_recommendations", "my_policies", "my_profile">>

\* Lines 969-975: the keys of policy_map, the string form of every policy
\* id (the ObjectId keys are equal to no entry of the recommendation).
HandlerPolicyKeys(ps) == Range(PolicyIds(ps))

\* Lines 1057-1075: one create-claim button for every applicable entry
\* that is a key of policy_map, then the back button.
ReplyKeyboard(applicable, ps) ==
    LET found == SelectSeq(applicable,
                           LAMBDA e : e \in HandlerPolicyKeys(ps))
    IN  [k \in 1..Len(found) |-> "claim_policy_" \o found[k]]
        \o <<"back_to_menu">>

InitHandler ==
    /\ store \in HandlerStores
    /\ pc = "idle"
    /\ policies = <<>>
    /\ raw = NoRecommendation
    /\ mapped = <<>>
    /\ result = Pending
    /\ calls = <<>>
    /\ frames = <<>>
    /\ hash_order = <<>>
    /\ hpc = "received"
    /\ fsm_state = "entering_situation"
    /\ processing = "none"
    /\ delete_requests = 0
    /\ keyboard = <<>>

\* Line 940, before the try: await message.answer("Analyzing your
\* situation..."); then line 944 starts the call of the function.
SendProcessing ==
    /\ hpc = "received"
    /\ \/ /\ processing' = "shown"
          /\ hpc' = "engine"
          /\ pc' = "start"
       \/ /\ hpc' = "crashed"
          /\ UNCHANGED <<processing, pc>>
    /\ UNCHANGED <<fsm_state, delete_requests, keyboard>>
    /\ UNCHANGED <<store, policies, raw, mapped, result>>
    /\ UNCHANGED concurrent_vars

\* Line 251 inside the call made at line 944.
HandlerRecommend ==
    /\ pc = "oracle"
    /\ raw' \in HandlerAnswers
    /\ pc' = "reconcile"
    /\ UNCHANGED <<store, policies, mapped, result>>
    /\ UNCHANGED concurrent_vars
    /\ UNCHANGED handler_vars

\* Line 944: the call raised; control passes to the except clause.
EngineRaised ==
    /\ hpc = "engine"
    /\ pc = "done"
    /\ result.status = "raised"
    /\ hpc' = "except"
    /\ UNCHANGED <<fsm_state, processing, delete_requests, keyboard>>
    /\ UNCHANGED <<store, pc, policies, raw, mapped, result>>
    /\ UNCHANGED concurrent_vars

\* Lines 944-949: the call returned; await bot.delete_message(...) for the
\* processing message, then the test of result["success"].
DeleteProcessing ==
    /\ hpc = "engine"
    /\ pc = "done"
    /\ result.status # "raised"
    /\ delete_requests' = delete_requests + 1
    /\ \/ /\ processing' = "deleted"
          /\ hpc' = IF result.status = "failure" THEN "answer_failure"
                    ELSE "fetch"
       \/ /\ hpc' = "except"
          /\ UNCHANGED processing
    /\ UNCHANGED <<fsm_state, keyboard>>
    /\ UNCHANGED <<store, pc, policies, raw, mapped, result>>
    /\ UNCHANGED concurrent_vars

\* Lines 950-955: the failure message with the main menu, set_state and
\* return.
AnswerFailure ==
    /\ hpc = "answer_failure"
    /\ \/ /\ keyboard' = MainMenuKeyboard
          /\ fsm_state' = "main_menu"
          /\ hpc' = "returned"
       \/ /\ hpc' = "except"
          /\ UNCHANGED <<keyboard, fsm_state>>
    /\ UNCHANGED <<processing, delete_requests>>
    /\ UNCHANGED <<store, pc, policies, raw, mapped, result>>
    /\ UNCHANGED concurrent_vars

\* Lines 957-967: await db.get_policies(user_id) for the reply.
FetchPolicies ==
    /\ hpc = "fetch"
    /\ hpc' \in {"reply", "except"}
    /\ UNCHANGED <<fsm_state, processing, delete_requests, keyboard>>
    /\ UNCHANGED <<store, pc, policies, raw, mapped, result>>
    /\ UNCHANGED concurrent_vars

\* Lines 969-1078: policy_map, the text, the keyboard, await
\* message.answer(response, reply_markup=...) and set_state.
SendReply ==
    /\ hpc = "reply"
    /\ \/ /\ keyboard' = ReplyKeyboard(
                             ApplicableOrEmpty(result.recommendations), store)
          /\ fsm_state' = "main_menu"
          /\ hpc' = "returned"
       \/ /\ hpc' = "except"
          /\ UNCHANGED <<keyboard, fsm_state>>
    /\ UNCHANGED <<processing, delete_requests>>
    /\ UNCHANGED <<store, pc, policies, raw, mapped, result>>
    /\ UNCHANGED concurrent_vars

\* Lines 1080-1083, the except clause: await bot.delete_message(...) for
\* the processing message again.  Telegram refuses to delete a message that
\* is already deleted, and the exception leaves the handler.
ExceptDelete ==
    /\ hpc = "except"
    /\ delete_requests' = delete_requests + 1
    /\ \/ /\ processing = "shown"
          /\ processing' = "deleted"
          /\ hpc' = "except_answer"
       \/ /\ hpc' = "crashed"
          /\ UNCHANGED processing
    /\ UNCHANGED <<fsm_state, keyboard>>
    /\ UNCHANGED <<store, pc, policies, raw, mapped, result>>
    /\ UNCHANGED concurrent_vars

\* Lines 1084-1088: the apology with the main menu, then set_state.
ExceptAnswer ==
    /\ hpc = "except_answer"
    /\ \/ /\ keyboard' = MainMenuKeyboard
          /\ fsm_state' = "main_menu"
          /\ hpc' = "returned"
       \/ /\ hpc' = "crashed"
          /\ UNCHANGED <<keyboard, fsm_state>>
    /\ UNCHANGED <<processing, delete_requests>>
    /\ UNCHANGED <<store, pc, policies, raw, mapped, result>>
    /\ UNCHANGED concurrent_vars

NextHandler ==
    \/ SendProcessing
    \/ GetPolicies
    \/ HandlerRecommend
    \/ Reconcile
    \/ EngineRaised
    \/ DeleteProcessing
    \/ AnswerFailure
    \/ FetchPolicies
    \/ SendReply
    \/ ExceptDelete
    \/ ExceptAnswer

SpecHandler == InitHandler /\ [][NextHandler]_vars

(***************************************************************************)
(* Properties of the returned recommendation.                              *)
(***************************************************************************)
Succeeded == pc = "done" /\ result.status = "success"

Out == result.recommendations

\* out.get(key, []) for a list-valued key of the returned recommendation.
OutList(key) == IF key \in Out.has THEN Out[key] ELSE <<>>

InputIds == Range(PolicyIds(policies))

\* The ids the raw applicable_policies tokens resolve to, in token order.
RawApplicableResolved ==
    ResolveTokens(raw.applicable_policies, PolicyMap(policies),
                  PolicyNumberMap(policies), PolicyTypeMap(policies))

RawApplicableWellTyped ==
    ~AnyTokenRaises(raw.applicable_policies, PolicyMap(policies),
                    PolicyNumberMap(policies))

\* C1: every entry of applicable_policies and of filing_order in the
\* returned recommendation is the id of one of the input policies.
C1_EntriesArePolicyIds ==
    Succeeded =>
        /\ \A i \in 1..Len(OutList("applicable_policies")) :
               OutList("applicable_policies")[i] \in InputIds
        /\ \A i \in 1..Len(OutList("filing_order")) :
               OutList("filing_order")[i] \in InputIds

\* C2: coverage_details has exactly one entry per entry of
\* applicable_policies, in the same order.
C2_OneDetailPerApplicable ==
    Succeeded =>
        /\ Len(OutList("coverage_details")) = Len(OutList("applicable_policies"))
        /\ \A i \in 1..Len(OutList("coverage_details")) :
               i <= Len(OutList("applicable_policies")) =>
                   DetailPolicyId(OutList("coverage_details")[i])
                       = OutList("applicable_policies")[i]

DetailFields == {"policy_id", "estimated_coverage", "deductible", "copay"}

\* C3: every element of the output coverage_details has the four fields
\* policy_id, estimated_coverage, deductible and copay, none of them null.
C3_DetailsFullyPopulated ==
    Succeeded =>
        \A i \in 1..Len(OutList("coverage_details")) :
            LET d == OutList("coverage_details")[i]
            IN  /\ DetailFields \subseteq d.has
                /\ \A k \in DetailFields : d[k] # NoneVal

\* C4: with a non-empty policy list and raw applicable_policies empty or
\* made only of tokens that resolve to no policy, the output
\* applicable_policies is the list of all input policy ids in input order.
C4_SafeDefaultFallback ==
    (Succeeded /\ RawApplicableWellTyped /\ RawApplicableResolved = <<>>) =>
        /\ "applicable_policies" \in Out.has
        /\ Out.applicable_policies = PolicyIds(policies)

\* C5: reconciling applicable_policies keeps each resolved policy once, at
\* the position of its first occurrence among the tokens.
C5_FirstOccurrenceOrder ==
    (Succeeded /\ RawApplicableResolved # <<>>) =>
        mapped = DedupKeepFirst(RawApplicableResolved)

\* C6: for a non-empty policy list the call never propagates an exception,
\* whatever the raw recommendation holds.
C6_NeverRaises == pc = "done" => result.status # "raised"

\* C7: rewriting the explanation a second time for the same resolved
\* policies changes nothing.
C7_RewriteIdempotent ==
    (Succeeded /\ TruthyExplanation(raw) /\ mapped # <<>>) =>
        Rewrite(Out.explanation, mapped, PolicyMap(policies)) = Out.explanation

RawIsEmpty ==
    /\ raw.applicable_policies = <<>>
    /\ raw.coverage_details = <<>>
    /\ raw.filing_order = <<>>
    /\ raw.limitations = <<>>
    /\ raw.explanation = ""

\* C8: for a raw recommendation with every field absent or empty, the output
\* lists all policy ids in applicable_policies and filing_order, has one
\* synthesized coverage detail per policy, the default limitations and an
\* empty explanation.
C8_EmptyInputSafety ==
    (Succeeded /\ RawIsEmpty) =>
        /\ OutList("applicable_policies") = PolicyIds(policies)
        /\ OutList("filing_order") = PolicyIds(policies)
        /\ Len(OutList("coverage_details")) = Len(policies)
        /\ OutList("limitations") = DefaultLimitations
        /\ Out.explanation = ""

\* C9: on every successful call the output limitations is the raw
\* limitations when that list is non-empty and the single default string
\* otherwise, hence never empty.
C9_LimitationsNeverEmpty ==
    Succeeded =>
        /\ "limitations" \in Out.has
        /\ Out.limitations # <<>>
        /\ Out.limitations = IF Truthy(raw, "limitations")
                             THEN raw.limitations
                             ELSE DefaultLimitations

\* C9 witness: a successful call on an answer whose limitations list is
\* empty returned the default string.
C9_Witness ==
    /\ Succeeded
    /\ raw.has = RecommendationKeys
    /\ raw.limitations = <<>>
    /\ mapped # <<>>
    /\ Out.limitations = DefaultLimitations

\* A raw detail that carries all three values.
HasOracleNumbers(d) ==
    /\ d.isdict
    /\ DetailFields \subseteq d.has
    /\ \A k \in DetailFields \ {"policy_id"} : d[k] \notin {"", NoneVal}

\* C10: a raw coverage detail that resolves to an applicable policy and has
\* estimated_coverage, deductible and copay is passed through: the output
\* entry for that policy carries exactly those three values.
C10_OracleNumbersKept ==
    Succeeded =>
        \A i \in 1..Len(raw.coverage_details) :
            LET d == raw.coverage_details[i]
                pm == PolicyMap(policies)
                to == IF d.isdict /\ IsStr(DetailPolicyId(d))
                      THEN ResolveToken(DetailPolicyId(d), pm,
                                        PolicyNumberMap(policies),
                                        PolicyTypeMap(policies))
                      ELSE <<>>
            IN  (HasOracleNumbers(d) /\ to # <<>> /\ to[1] \in Range(mapped)) =>
                    \E j \in 1..Len(OutList("coverage_details")) :
                        LET e == OutList("coverage_details")[j]
                        IN  /\ DetailPolicyId(e) \in
                                   {to[1], DisplayLabel(to[1], pm,
                                               PolicyIdToNumber(policies))}
                            /\ DetailFields \subseteq e.has
                            /\ e.estimated_coverage = d.estimated_coverage
                            /\ e.deductible = d.deductible
                            /\ e.copay = d.copay

TypeKeywords == {"health", "auto", "home"}

\* The token names the policy: it is its id, its number, or a string that
\* shares a type keyword with the policy's type.
Names(tok, p) ==
    \/ tok = StrOfId(p._id)
    \/ (PolicyNumberOf(p) # "" /\ tok = PolicyNumberOf(p))
    \/ /\ IsStr(tok)
       /\ \E kw \in TypeKeywords :
              Contains(Lower(tok), kw) /\ Contains(Lower(p.policy_type), kw)

\* The input policies that some token of the list names.
NamedBy(toks) ==
    {i \in 1..Len(policies) : \E k \in 1..Len(toks) : Names(toks[k], policies[i])}

\* The display label the returned lists carry for the i-th input policy.
LabelOf(i) ==
    DisplayLabel(StrOfId(policies[i]._id), PolicyMap(policies),
                 PolicyIdToNumber(policies))

AllStrings(toks) == \A k \in 1..Len(toks) : IsStr(toks[k])

LimitsParse == \A i \in 1..Len(policies) : SumLimits(policies[i].coverage_areas).ok

\* C11: a token that resolves to no policy is left out.  When some token of
\* the raw applicable_policies (of the raw filing_order) names a policy, the
\* reconciled list has no repeated entry, every entry is a policy that some
\* token names, and every policy named by a token has its entry; and a call
\* whose tokens are all strings does not raise because of them.
C11_MissIsOmission ==
    /\ (Succeeded /\ NamedBy(raw.applicable_policies) # {}) =>
           /\ NoRepeats(mapped)
           /\ Range(mapped) = {StrOfId(policies[i]._id) :
                                  i \in NamedBy(raw.applicable_policies)}
           /\ Len(OutList("applicable_policies")) = Len(mapped)
    /\ (Succeeded /\ NamedBy(raw.filing_order) # {}) =>
           /\ NoRepeats(OutList("filing_order"))
           /\ Range(OutList("filing_order")) =
                  {LabelOf(i) : i \in NamedBy(raw.filing_order)}
    /\ (/\ pc = "done" /\ policies # <<>>
        /\ AllStrings(raw.applicable_policies) /\ AllStrings(raw.filing_order)
        /\ raw.coverage_details = <<>> /\ LimitsParse) =>
           result.status = "success"

\* C11 witness: both raw lists mix a token that names the health policy with
\* one that names no policy, and each reconciled list has the single entry.
C11_Witness ==
    /\ Succeeded
    /\ policies = <<PolHealth>>
    /\ raw.applicable_policies = <<"p2", "123456">>
    /\ raw.filing_order = <<"ghost-id", "123456">>
    /\ mapped = <<"p1">>
    /\ OutList("filing_order") = <<LabelOf(1)>>

\* C12: when no token of the raw filing_order names a policy (the list may
\* be empty or absent) and the reconciled applicable_policies is not empty,
\* the returned filing_order is the returned applicable_policies, entry for
\* entry.
C12_FilingOrderFallback ==
    (Succeeded /\ NamedBy(raw.filing_order) = {} /\ mapped # <<>>) =>
        /\ OutList("filing_order") # <<>>
        /\ OutList("filing_order") = OutList("applicable_policies")

\* C12 witness: the only filing token names no policy, two policies are
\* applicable, and the returned filing order lists both.
C12_Witness ==
    /\ Succeeded
    /\ raw.filing_order = <<"ghost-id">>
    /\ Len(mapped) = 2
    /\ Len(OutList("filing_order")) = 2
    /\ OutList("filing_order") = OutList("applicable_policies")

\* The raw coverage details hold an entry whose policy_id names the policy.
HasRawDetailFor(p) ==
    \E k \in 1..Len(raw.coverage_details) :
        LET d == raw.coverage_details[k]
        IN  d.isdict /\ Names(DetailPolicyId(d), p)

\* The entries of the returned coverage_details that carry the label of the
\* i-th input policy.
OutDetailsOf(i) ==
    {j \in 1..Len(OutList("coverage_details")) :
        DetailPolicyId(OutList("coverage_details")[j]) = LabelOf(i)}

C14_UnparseableLimitSkipped ==
    (/\ pc = "done" /\ policies # <<>> /\ ~LimitsParse
     /\ AllStrings(raw.applicable_policies) /\ AllStrings(raw.filing_order)
     /\ raw.coverage_details = <<>>) =>
        result.status = "success"

\* C17: with no policy in the store the call is rejected at once: it never
\* reaches the call of recommend_claim_options nor the reconciliation, the
\* oracle's answer and the mapped list are never assigned, and the call
\* returns the failure with the "No policies found" message.
C17_EmptyStoreRejected ==
    /\ pc \in {"oracle", "reconcile"} => policies # <<>>
    /\ (pc # "start" /\ policies = <<>>) =>
           /\ pc = "done"
           /\ result.status = "failure"
           /\ result.message = NoPoliciesMessage
           /\ result.recommendations = NoRecommendation
           /\ raw = NoRecommendation
           /\ mapped = <<>>

\* C17 witness: a call on an empty store has returned the failure.
C17_Witness ==
    /\ pc = "done"
    /\ store = <<>>
    /\ policies = <<>>
    /\ result.status = "failure"
    /\ result.message = NoPoliciesMessage

\* C20: the call only reads the policy records: from the fetch on, the
\* records it works on, coverage areas included, are those of the store.
C20_PoliciesOnlyRead == pc # "start" => policies = store

\* C20 witness: a call that read the coverage areas of the health policy to
\* synthesize its detail has returned, and the records are as fetched.
C20_Witness ==
    /\ Succeeded
    /\ PolHealth \in Range(policies)
    /\ "p1" \in Range(mapped)
    /\ OutList("coverage_details") # <<>>
    /\ policies = store

\* The input policies a token must resolve to by the first two tiers: the
\* policy with that id if there is one, else the policies with that number.
ByIdOrNumber(tok) ==
    LET byid == {i \in 1..Len(policies) : StrOfId(policies[i]._id) = tok}
        bynumber == {i \in 1..Len(policies) :
                        PolicyNumberOf(policies[i]) # ""
                        /\ PolicyNumberOf(policies[i]) = tok}
    IN  IF byid # {} THEN byid ELSE bynumber

\* C15: resolution goes by id, then by policy number, then by type keyword,
\* and stops at the first hit: a token that is the id of a policy resolves
\* to it even if it is the number of another policy, and a token that is a
\* policy number (and no id) resolves to the policy with that number even
\* if it contains a type keyword.
C15_TieredResolution ==
    Succeeded =>
        /\ \A tok \in Range(raw.applicable_policies) :
               (Len(raw.applicable_policies) = 1 /\ ByIdOrNumber(tok) # {}) =>
                   \E i \in ByIdOrNumber(tok) :
                       mapped = <<StrOfId(policies[i]._id)>>
        /\ \A tok \in Range(raw.filing_order) :
               (Len(raw.filing_order) = 1 /\ ByIdOrNumber(tok) # {}) =>
                   \E i \in ByIdOrNumber(tok) :
                       OutList("filing_order") = <<LabelOf(i)>>

\* C15 witness: "p5" is the id of the first policy and the number of the
\* second, "AUTO-77" is the number of the first and contains the keyword of
\* the second, and both resolved to the first policy.
C15_Witness ==
    /\ Succeeded
    /\ policies = <<PolTagged, PolAlias>>
    /\ raw.applicable_policies = <<"p5">>
    /\ raw.filing_order = <<"AUTO-77">>
    /\ mapped = <<"p5">>
    /\ OutList("filing_order") = <<LabelOf(1)>>

\* The input policies whose type contains the keyword.
OfType(kw) ==
    {i \in 1..Len(policies) : Contains(Lower(policies[i].policy_type), kw)}

\* C16: a token that is no policy id and no policy number and contains
\* "health" (in any case) resolves to the policy whose type contains
\* "health" whenever there is exactly one; likewise for "auto" and "home".
C16_TypeKeywordResolution ==
    Succeeded =>
        \A tok \in Range(raw.applicable_policies) : \A kw \in TypeKeywords :
            (/\ Len(raw.applicable_policies) = 1
             /\ IsStr(tok) /\ ByIdOrNumber(tok) = {}
             /\ Contains(Lower(tok), kw)
             /\ Cardinality(OfType(kw)) = 1) =>
                \E i \in OfType(kw) : mapped = <<StrOfId(policies[i]._id)>>

\* What a call returns when it runs alone on the policy list and the
\* oracle's answer, for the iteration orders a process can have.
ReturnsAlone(ps, r) ==
    IF ps = <<>> THEN {NoPolicies}
    ELSE {Outcome(Reconciled(ps, r, o)) : o \in Orders(ps)}

\* C18: whatever the interleaving of the calls at their awaits, each call
\* returns what it would return alone on the store and on the answer the
\* oracle gave it.
C18_CallsDoNotInterfere ==
    \A i \in Invocations :
        calls[i].pc = "done" =>
            calls[i].returned \in ReturnsAlone(store, calls[i].answer)

\* C18 witness: two calls that were suspended at the same time, with
\* different answers of the oracle, have both returned the result of
\* running alone, and the results differ.
C18_Witness ==
    /\ calls[1].pc = "done" /\ calls[2].pc = "done"
    /\ calls[1].overlapped /\ calls[2].overlapped
    /\ calls[1].answer # calls[2].answer
    /\ calls[1].returned.status = "success"
    /\ calls[2].returned.status = "success"
    /\ calls[1].returned # calls[2].returned
    /\ calls[1].returned \in ReturnsAlone(store, calls[1].answer)
    /\ calls[2].returned \in ReturnsAlone(store, calls[2].answer)

\* C19: two calls with the same policy list and the same answer of the
\* oracle return equal results, the order of the lists included.
C19_SameInputsSameResult ==
    \A i, j \in Invocations :
        (/\ calls[i].pc = "done" /\ calls[j].pc = "done"
         /\ calls[i].answer = calls[j].answer) =>
            calls[i].returned = calls[j].returned

\* C21: the engine leaves the oracle's recommendation object as the oracle
\* produced it: while the frame of a returned call is alive, the object
\* bound to recommendations still holds the oracle's answer.
C21_RawLeftUnchanged ==
    \A i \in Invocations :
        (calls[i].pc = "done" /\ frames[FrameOf(i)].policies # <<>>) =>
            frames[FrameOf(i)].recommendations = calls[i].answer

\* The position of the first input policy carrying the number (0 when no
\* policy has it).
FirstWithNumber(n) ==
    LET holders == {i \in 1..Len(policies) : PolicyNumberOf(policies[i]) = n}
    IN  IF holders = {} THEN 0
        ELSE CHOOSE i \in holders : \A k \in holders : i <= k

\* C22: when several input policies carry the same non-empty number, a token
\* equal to that number (and to no policy id) resolves to the first of them
\* in the input list.
C22_FirstNumberWins ==
    Succeeded =>
        \A tok \in Range(raw.applicable_policies) :
            (/\ Len(raw.applicable_policies) = 1
             /\ tok \notin InputIds
             /\ FirstWithNumber(tok) # 0) =>
                mapped = <<StrOfId(policies[FirstWithNumber(tok)]._id)>>

\* The position of the first input policy whose type contains the keyword
\* (0 when there is none).
FirstOfType(kw) ==
    IF OfType(kw) = {} THEN 0
    ELSE CHOOSE i \in OfType(kw) : \A k \in OfType(kw) : i <= k

\* C23: when several input policies have a type containing the same
\* keyword, a token that is no id and no number and contains that keyword
\* resolves to the first of them in the input list.
C23_FirstTypeWins ==
    Succeeded =>
        \A tok \in Range(raw.applicable_policies) : \A kw \in TypeKeywords :
            (/\ Len(raw.applicable_policies) = 1
             /\ IsStr(tok) /\ ByIdOrNumber(tok) = {}
             /\ Contains(Lower(tok), kw)
             /\ Cardinality(OfType(kw)) >= 2) =>
                mapped = <<StrOfId(policies[FirstOfType(kw)]._id)>>

\* The ids the raw filing_order tokens resolve to, in token order.
RawFilingResolved ==
    ResolveTokens(raw.filing_order, PolicyMap(policies),
                  PolicyNumberMap(policies), PolicyTypeMap(policies))

\* C24: the returned filing_order lists each policy the raw filing_order
\* resolves to once, in the order in which the tokens first refer to it.
C24_FilingOrderDedup ==
    (Succeeded /\ RawFilingResolved # <<>>) =>
        /\ NoRepeats(OutList("filing_order"))
        /\ OutList("filing_order") =
               LabelList(DedupKeepFirst(RawFilingResolved), PolicyMap(policies),
                         PolicyIdToNumber(policies))

\* C24 witness: the raw filing order refers to one policy by its id and
\* then by its number, and the returned filing order lists it once.
C24_Witness ==
    /\ Succeeded
    /\ policies = <<PolTagged, PolHealth>>
    /\ raw.filing_order = <<"p5", "AUTO-77">>
    /\ OutList("filing_order") = <<LabelOf(1)>>

\* The applicable policy with this id has a type and a number.
HasTypeAndNumber(id) ==
    \E i \in 1..Len(policies) :
        /\ StrOfId(policies[i]._id) = id
        /\ policies[i].policy_type # ""
        /\ PolicyNumberOf(policies[i]) # ""

\* C26: the explanation is rewritten only for applicable policies that have
\* both a type and a number: when every applicable policy lacks one of
\* them, the returned explanation is the raw one.
C26_RewriteNeedsTypeAndNumber ==
    (/\ Succeeded /\ TruthyExplanation(raw) /\ mapped # <<>>
     /\ \A id \in Range(mapped) : ~HasTypeAndNumber(id)) =>
        Out.explanation = raw.explanation

\* The i-th input policy has no coverage area, or limits that sum to zero.
NothingToSum(i) ==
    LET total == SumLimits(policies[i].coverage_areas)
    IN  policies[i].coverage_areas = <<>> \/ (total.ok /\ total.v = 0)

\* Some raw coverage detail naming the policy carries an estimated coverage.
OracleEstimates(p) ==
    \E k \in 1..Len(raw.coverage_details) :
        LET d == raw.coverage_details[k]
        IN  /\ d.isdict /\ Names(DetailPolicyId(d), p)
            /\ "estimated_coverage" \in d.has
            /\ d.estimated_coverage \notin {"", NoneVal}

\* C25: a returned coverage detail of a policy that has no coverage area or
\* whose limits sum to zero always has an estimated_coverage, never "$0.00",
\* and it is the placeholder "See policy for details" unless the oracle
\* gave an estimate for the policy.
C25_PlaceholderForNothingToSum ==
    Succeeded =>
        \A i \in 1..Len(policies) : \A j \in OutDetailsOf(i) :
            LET e == OutList("coverage_details")[j]
            IN  NothingToSum(i) =>
                    /\ "estimated_coverage" \in e.has
                    /\ e.estimated_coverage # "$0.00"
                    /\ ~OracleEstimates(policies[i]) =>
                           e.estimated_coverage = Placeholder

\* C28: every entry of the returned filing_order is an entry of the
\* returned applicable_policies.
C28_FilingWithinApplicable ==
    Succeeded =>
        Range(OutList("filing_order")) \subseteq
            Range(OutList("applicable_policies"))

\* The handler has ended: it returned, or an exception left it.
HandlerEnded == hpc \in {"returned", "crashed"}

\* The recommendation reply was sent.
ReplySent == hpc = "returned" /\ result.status = "success"

\* C27: when the recommendation reply is sent, its keyboard has, for every
\* policy the function resolved as applicable, a button whose callback data
\* is claim_policy_<id> with the id of that policy.
C27_CreateClaimButtons ==
    ReplySent =>
        \A id \in Range(mapped) : ("claim_policy_" \o id) \in Range(keyboard)

\* C29: when the handler of a message received in entering_situation has
\* ended after its processing message was sent, the conversation state is
\* main_menu.
C29_EndsInMainMenu ==
    (HandlerEnded /\ processing # "none") => fsm_state = "main_menu"

\* C30: once the processing message is deleted, the handler requests no
\* further deletion of it.
C30_NoSecondDeletion ==
    [][processing = "deleted" => delete_requests' = delete_requests]_vars

=============================================================================
